---------------------------- MODULE Spec2Model ----------------------------
(***************************************************************************)
(* A model of scripts/mouse_remap.py: the supervisor (main), one listener  *)
(* thread per discovered device (monitor_device) and the dispatcher        *)
(* (run_ydotool_key).  The environment (the input devices, the events they *)
(* emit, the outcome of the external tool and the interrupt signal) is     *)
(* nondeterministic.                                                       *)
(***************************************************************************)
EXTENDS Integers, Sequences, FiniteSets, TLC

(***************************************************************************)
(* Program constants.                                                      *)
(***************************************************************************)
TOP_BUTTON == 276
BOTTOM_BUTTON == 275
MIDDLE_BUTTON == 274
\* ecodes.EV_KEY
EV_KEY == 1
\* an event type that is not EV_KEY (EV_REL)
EV_OTHER == EV_KEY + 1
\* the exit status of sys.exit(1)
EXIT_NO_DEVICES == 1
\* the exit status of a main() that returns
EXIT_OK == 0
\* the exit status of a Python process ended by an uncaught KeyboardInterrupt
\* (the interpreter re-raises SIGINT on itself: 128 + SIGINT)
EXIT_SIGINT == 128 + 2

\* Strings are sequences of one-character strings, so that str.split() and
\* ' '.join() are computed and not assumed.
SP == " "
YDOTOOL == <<"y", "d", "o", "t", "o", "o", "l">>
KEY == <<"k", "e", "y">>
SUPER_SHIFT_3 == <<"s", "u", "p", "e", "r", "+", "s", "h", "i", "f", "t", "+", "3">>
CTRL_V == <<"c", "t", "r", "l", "+", "v">>
CTRL_C == <<"c", "t", "r", "l", "+", "c">>

(***************************************************************************)
(* Bounds and the environment's input sets.                                *)
(***************************************************************************)
\* the number of events all devices together deliver in one run
MaxEvents == 2

\* evdev.list_devices(): the device paths, in enumeration order
ListDevices == <<"event0", "event1">>
Paths == {ListDevices[k] : k \in 1..Len(ListDevices)}

\* device.capabilities() of a device: event type -> supported codes.
\* A device without keys
NoKeys == (EV_OTHER :> {0, 1})
\* a device whose only key is an unrelated one (BTN_LEFT)
LeftOnly == (EV_KEY :> {272}) @@ (EV_OTHER :> {0, 1})
\* a mouse with BTN_LEFT and the top side button
TopMouse == (EV_KEY :> {272, 276}) @@ (EV_OTHER :> {0, 1})
\* a device with the bottom and the middle button
BottomMiddleMouse == (EV_KEY :> {274, 275})

CapChoices == {NoKeys, LeftOnly, TopMouse, BottomMiddleMouse}

\* the systems considered: the enumerated devices are of different kinds, and
\* of the two mice the one with the top button is enumerated first (the other
\* order is the same system with the two kinds exchanged)
DeviceSets ==
    {f \in [Paths -> CapChoices] :
        \A i, j \in 1..Len(ListDevices) :
            i < j => /\ f[ListDevices[i]] # f[ListDevices[j]]
                     /\ ~(/\ f[ListDevices[i]] = BottomMiddleMouse
                          /\ f[ListDevices[j]] = TopMouse)}

\* event.value: 0 = up, 1 = down, 2 = repeat
Values == {0, 1, 2}

\* events whose type is not EV_KEY: each recognized code with value 1 (the
\* nearest to a button press) and a relative-motion event
OtherEvents ==
    {[type |-> EV_OTHER, code |-> c, value |-> 1] : c \in {274, 275, 276}}
    \cup {[type |-> EV_OTHER, code |-> 0, value |-> 0]}

VARIABLES
    caps,             \* environment: path -> capabilities of the device
    mainPc,           \* position of the main thread
    discIdx,          \* main: index of the discovery loop over list_devices()
    discovered_paths, \* main: discovered_paths
    device,           \* main: the InputDevice its variable "device" is bound to
    checked,          \* history: paths whose open and inspection succeeded
    warned,           \* history: paths for which "Could not check device" was logged
    threads,          \* main: threads (the path each started thread monitors)
    sigint,           \* a SIGINT is pending for the main thread
    exitStatus,       \* <<>> while the process lives, <<status>> once it exited
    mainLog,          \* the messages main has logged, in order
    lpc,              \* path -> position of the listener thread of that path
    events,           \* history: path -> events its listener has read
    calls,            \* history: path -> arguments of its run_ydotool_key calls
    launches,         \* history: path -> argument lists given to subprocess.run
    results           \* history: path -> outcome of each returned subprocess.run

vars == <<caps, mainPc, discIdx, discovered_paths, device, checked, warned, threads,
          sigint, exitStatus, mainLog, lpc, events, calls, launches, results>>

mainVars == <<mainPc, discIdx, discovered_paths, device, checked, warned, threads,
              exitStatus, mainLog>>
listenerVars == <<lpc, events, calls, launches, results>>

Alive == mainPc # "exited"

(***************************************************************************)
(* Pure helpers.                                                           *)
(***************************************************************************)
Range(s) == {s[k] : k \in 1..Len(s)}

RECURSIVE SplitFrom(_, _, _)
\* str.split(): the maximal runs of non-whitespace characters, in order
SplitFrom(s, k, cur) ==
    IF k > Len(s)
    THEN IF cur = <<>> THEN <<>> ELSE <<cur>>
    ELSE IF s[k] = SP
         THEN (IF cur = <<>> THEN <<>> ELSE <<cur>>) \o SplitFrom(s, k + 1, <<>>)
         ELSE SplitFrom(s, k + 1, Append(cur, s[k]))

Split(s) == SplitFrom(s, 1, <<>>)

\* the command with the combo string passed unsplit
Cmd_NoSplit(combo_str) == <<YDOTOOL, KEY, combo_str>>

\* run_ydotool_key: the command built from the combo string
Cmd(combo_str) == <<YDOTOOL, KEY>> \o Split(combo_str)

\* the capability filter without the test of the codes
Suitable_AnyKey(capabilities) == EV_KEY \in DOMAIN capabilities

\* main: the capability filter of discovery
Suitable(capabilities) ==
    IF EV_KEY \in DOMAIN capabilities
    THEN LET keys == capabilities[EV_KEY]
         IN  TOP_BUTTON \in keys \/ BOTTOM_BUTTON \in keys \/ MIDDLE_BUTTON \in keys
    ELSE FALSE

\* HandleEvent with the two side buttons only
HandleEvent_TwoButtons(event) ==
    IF event.type = EV_KEY
    THEN IF event.value = 1
         THEN IF event.code = TOP_BUTTON THEN <<SUPER_SHIFT_3>>
              ELSE IF event.code = BOTTOM_BUTTON THEN <<CTRL_V>>
              ELSE <<>>
         ELSE <<>>
    ELSE <<>>

\* HandleEvent without the test of event.value
HandleEvent_AnyValue(event) ==
    IF event.type = EV_KEY
    THEN IF event.code = TOP_BUTTON THEN <<SUPER_SHIFT_3>>
         ELSE IF event.code = BOTTOM_BUTTON THEN <<CTRL_V>>
         ELSE IF event.code = 274 THEN <<CTRL_C>>
         ELSE <<>>
    ELSE <<>>

\* HandleEvent without the test of event.type
HandleEvent_AnyType(event) ==
    IF event.value = 1
    THEN IF event.code = TOP_BUTTON THEN <<SUPER_SHIFT_3>>
         ELSE IF event.code = BOTTOM_BUTTON THEN <<CTRL_V>>
         ELSE IF event.code = 274 THEN <<CTRL_C>>
         ELSE <<>>
    ELSE <<>>

\* monitor_device: the body of the read loop; the sequence of combos it
\* passes to run_ydotool_key for one event
HandleEvent(event) ==
    IF event.type = EV_KEY
    THEN IF event.value = 1
         THEN IF event.code = TOP_BUTTON THEN <<SUPER_SHIFT_3>>
              ELSE IF event.code = BOTTOM_BUTTON THEN <<CTRL_V>>
              ELSE IF event.code = 274 THEN <<CTRL_C>>
              ELSE <<>>
         ELSE <<>>
    ELSE <<>>

\* the events the device at path p can deliver
EventsOf(p) ==
    {[type |-> EV_KEY, code |-> c, value |-> v] :
        c \in (IF EV_KEY \in DOMAIN caps[p] THEN caps[p][EV_KEY] ELSE {}), v \in Values}
    \cup OtherEvents

RECURSIVE SumLen(_, _)
SumLen(f, S) ==
    IF S = {} THEN 0
    ELSE LET p == CHOOSE q \in S : TRUE IN Len(f[p]) + SumLen(f, S \ {p})

TotalEvents == SumLen(events, Paths)

(***************************************************************************)
(* Initial state: the process has started, main is about to enumerate.     *)
(***************************************************************************)
Init ==
    /\ caps \in DeviceSets
    /\ mainPc = "discover"
    /\ discIdx = 1
    /\ discovered_paths = <<>>
    /\ device = <<>>
    /\ checked = {}
    /\ warned = {}
    /\ threads = <<>>
    /\ sigint = FALSE
    /\ exitStatus = <<>>
    /\ mainLog = <<"searching">>
    /\ lpc = [p \in Paths |-> "unstarted"]
    /\ events = [p \in Paths |-> <<>>]
    /\ calls = [p \in Paths |-> <<>>]
    /\ launches = [p \in Paths |-> <<>>]
    /\ results = [p \in Paths |-> <<>>]

(***************************************************************************)
(* The main thread.                                                        *)
(***************************************************************************)
\* a discovery loop that appends the path once for every recognized code the
\* device exposes
DiscoverStep_PerCode ==
    /\ mainPc = "discover" /\ ~sigint
    /\ discIdx <= Len(ListDevices)
    /\ LET path == ListDevices[discIdx] IN
       \E outcome \in {"ok", "open_fails", "capabilities_fails"} :
          /\ device' = IF outcome = "open_fails" THEN device ELSE <<path>>
          /\ IF outcome = "ok"
             THEN /\ checked' = checked \cup {path}
                  /\ discovered_paths' =
                        IF EV_KEY \in DOMAIN caps[path]
                        THEN LET n == Cardinality(caps[path][EV_KEY] \cap
                                        {TOP_BUTTON, BOTTOM_BUTTON, MIDDLE_BUTTON})
                             IN  discovered_paths \o [k \in 1..n |-> path]
                        ELSE discovered_paths
                  /\ UNCHANGED warned
             ELSE /\ warned' = warned \cup {path}
                  /\ UNCHANGED <<checked, discovered_paths>>
    /\ discIdx' = discIdx + 1
    /\ UNCHANGED <<caps, mainPc, threads, sigint, exitStatus, mainLog, listenerVars>>

\* a discovery loop that a failure ends ("break" in the except clause)
DiscoverStep_FailureBreaks ==
    /\ mainPc = "discover" /\ ~sigint
    /\ discIdx <= Len(ListDevices)
    /\ LET path == ListDevices[discIdx] IN
       \E outcome \in {"ok", "open_fails", "capabilities_fails"} :
          /\ device' = IF outcome = "open_fails" THEN device ELSE <<path>>
          /\ IF outcome = "ok"
             THEN /\ checked' = checked \cup {path}
                  /\ discovered_paths' =
                        IF Suitable(caps[path])
                        THEN Append(discovered_paths, path)
                        ELSE discovered_paths
                  /\ discIdx' = discIdx + 1
                  /\ UNCHANGED warned
             ELSE /\ warned' = warned \cup {path}
                  /\ discIdx' = Len(ListDevices) + 1
                  /\ UNCHANGED <<checked, discovered_paths>>
    /\ UNCHANGED <<caps, mainPc, threads, sigint, exitStatus, mainLog, listenerVars>>

\* one iteration of "for path in evdev.list_devices()".  InputDevice(path)
\* may raise (then "device" keeps its former value) and capabilities() may
\* raise (then "device" is already bound to the new handle); a handle that
\* "device" no longer refers to is closed by its finalizer.
DiscoverStep ==
    /\ mainPc = "discover" /\ ~sigint
    /\ discIdx <= Len(ListDevices)
    /\ LET path == ListDevices[discIdx] IN
       \E outcome \in {"ok", "open_fails", "capabilities_fails"} :
          /\ device' = IF outcome = "open_fails" THEN device ELSE <<path>>
          /\ IF outcome = "ok"
             THEN /\ checked' = checked \cup {path}
                  /\ discovered_paths' =
                        IF Suitable(caps[path])
                        THEN Append(discovered_paths, path)
                        ELSE discovered_paths
                  /\ UNCHANGED warned
             ELSE /\ warned' = warned \cup {path}
                  /\ UNCHANGED <<checked, discovered_paths>>
    /\ discIdx' = discIdx + 1
    /\ UNCHANGED <<caps, mainPc, threads, sigint, exitStatus, mainLog, listenerVars>>

\* the empty-discovery branch without sys.exit(1): the error is logged and
\* main goes on to the spawn loop
NoDevicesExit_FallsThrough ==
    /\ mainPc = "discover" /\ ~sigint
    /\ discIdx > Len(ListDevices)
    /\ discovered_paths = <<>>
    /\ mainLog' = Append(mainLog, "no_devices")
    /\ mainPc' = "spawn"
    /\ UNCHANGED <<caps, discIdx, discovered_paths, device, checked, warned, threads,
                   sigint, exitStatus, listenerVars>>

\* "if not discovered_paths: ... sys.exit(1)"
NoDevicesExit ==
    /\ mainPc = "discover" /\ ~sigint
    /\ discIdx > Len(ListDevices)
    /\ discovered_paths = <<>>
    /\ mainLog' = Append(mainLog, "no_devices")
    /\ exitStatus' = <<EXIT_NO_DEVICES>>
    /\ mainPc' = "exited"
    /\ UNCHANGED <<caps, discIdx, discovered_paths, device, checked, warned, threads,
                   sigint, listenerVars>>

\* discovery found something: main goes on to "threads = []"
StartSpawning ==
    /\ mainPc = "discover" /\ ~sigint
    /\ discIdx > Len(ListDevices)
    /\ discovered_paths # <<>>
    /\ mainPc' = "spawn"
    /\ UNCHANGED <<caps, discIdx, discovered_paths, device, checked, warned, threads,
                   sigint, exitStatus, mainLog, listenerVars>>

\* one iteration of "for path in discovered_paths": t.start(); threads.append(t)
SpawnStep ==
    /\ mainPc = "spawn" /\ ~sigint
    /\ Len(threads) < Len(discovered_paths)
    /\ LET path == discovered_paths[Len(threads) + 1] IN
       /\ lpc' = [lpc EXCEPT ![path] = "opening"]
       /\ threads' = Append(threads, path)
    /\ UNCHANGED <<caps, mainPc, discIdx, discovered_paths, device, checked, warned,
                   sigint, exitStatus, mainLog, events, calls, launches, results>>

\* the spawn loop is over: log "Monitoring N device(s)." and enter the sleep loop
EnterSleepLoop ==
    /\ mainPc = "spawn" /\ ~sigint
    /\ Len(threads) = Len(discovered_paths)
    /\ mainLog' = Append(mainLog, "monitoring")
    /\ mainPc' = "sleep"
    /\ UNCHANGED <<caps, discIdx, discovered_paths, device, checked, warned, threads,
                   sigint, exitStatus, listenerVars>>

\* the environment sends SIGINT to the process
Interrupt ==
    /\ Alive /\ ~sigint
    /\ sigint' = TRUE
    /\ UNCHANGED <<caps, mainVars, listenerVars>>

\* a shutdown that first joins the listener threads
ShutDown_JoinsListeners ==
    /\ mainPc = "sleep" /\ sigint
    /\ \A p \in Range(threads) : lpc[p] = "stopped"
    /\ mainLog' = Append(mainLog, "shutdown")
    /\ exitStatus' = <<EXIT_OK>>
    /\ mainPc' = "exited"
    /\ UNCHANGED <<caps, discIdx, discovered_paths, device, checked, warned, threads,
                   sigint, listenerVars>>

\* KeyboardInterrupt raised inside "try: while True: time.sleep(10)":
\* caught, "Shutting down..." logged, main returns
ShutDown ==
    /\ mainPc = "sleep" /\ sigint
    /\ mainLog' = Append(mainLog, "shutdown")
    /\ exitStatus' = <<EXIT_OK>>
    /\ mainPc' = "exited"
    /\ UNCHANGED <<caps, discIdx, discovered_paths, device, checked, warned, threads,
                   sigint, listenerVars>>

\* KeyboardInterrupt raised in main outside the try block (it is not an
\* Exception, so the except clause of the discovery loop does not catch it)
UncaughtInterrupt ==
    /\ mainPc \in {"discover", "spawn"} /\ sigint
    /\ exitStatus' = <<EXIT_SIGINT>>
    /\ mainPc' = "exited"
    /\ UNCHANGED <<caps, discIdx, discovered_paths, device, checked, warned, threads,
                   sigint, mainLog, listenerVars>>

\* a supervisor that joins its threads: main returns once every listener
\* has stopped
MainStep_JoinsThreads ==
    \/ DiscoverStep
    \/ NoDevicesExit
    \/ StartSpawning
    \/ SpawnStep
    \/ EnterSleepLoop
    \/ ShutDown
    \/ UncaughtInterrupt
    \/ /\ mainPc = "sleep"
       /\ \A p \in Range(threads) : lpc[p] = "stopped"
       /\ exitStatus' = <<EXIT_OK>>
       /\ mainPc' = "exited"
       /\ UNCHANGED <<caps, discIdx, discovered_paths, device, checked, warned,
                      threads, sigint, mainLog, listenerVars>>

MainStep ==
    \/ DiscoverStep
    \/ NoDevicesExit
    \/ StartSpawning
    \/ SpawnStep
    \/ EnterSleepLoop
    \/ ShutDown
    \/ UncaughtInterrupt

(***************************************************************************)
(* The listener threads (daemon threads: they run only while the process   *)
(* lives).                                                                 *)
(***************************************************************************)
\* a listener that opens its device again after it stopped (a retry)
OpenDevice_Reopens(p) ==
    /\ Alive /\ lpc[p] \in {"opening", "stopped"}
    /\ \E ok \in BOOLEAN :
          lpc' = [lpc EXCEPT ![p] = IF ok THEN "reading" ELSE "stopped"]
    /\ UNCHANGED <<caps, mainVars, sigint, events, calls, launches, results>>

\* "device = evdev.InputDevice(path)" in monitor_device
OpenDevice(p) ==
    /\ Alive /\ lpc[p] = "opening"
    /\ \E ok \in BOOLEAN :
          lpc' = [lpc EXCEPT ![p] = IF ok THEN "reading" ELSE "stopped"]
    /\ UNCHANGED <<caps, mainVars, sigint, events, calls, launches, results>>

\* a read loop that goes on reading while the tool runs (the tool started
\* without waiting for it)
ReadEvent_Async(p) ==
    /\ Alive /\ lpc[p] \in {"reading", "dispatching"}
    /\ TotalEvents < MaxEvents
    /\ \E event \in EventsOf(p) :
          LET combos == HandleEvent(event) IN
          /\ events' = [events EXCEPT ![p] = Append(@, event)]
          /\ calls' = [calls EXCEPT ![p] = @ \o combos]
          /\ launches' = [launches EXCEPT ![p] =
                            @ \o [k \in 1..Len(combos) |-> Cmd(combos[k])]]
          /\ lpc' = [lpc EXCEPT ![p] =
                        IF combos = <<>> THEN @ ELSE "dispatching"]
    /\ UNCHANGED <<caps, mainVars, sigint, results>>

\* the read loop with the calls handed over last-in first-out
ReadEvent_Lifo(p) ==
    /\ Alive /\ lpc[p] = "reading"
    /\ TotalEvents < MaxEvents
    /\ \E event \in EventsOf(p) :
          LET combos == HandleEvent(event) IN
          /\ events' = [events EXCEPT ![p] = Append(@, event)]
          /\ calls' = [calls EXCEPT ![p] = combos \o @]
          /\ launches' = [launches EXCEPT ![p] =
                            [k \in 1..Len(combos) |-> Cmd(combos[k])] \o @]
          /\ lpc' = [lpc EXCEPT ![p] =
                        IF combos = <<>> THEN "reading" ELSE "dispatching"]
    /\ UNCHANGED <<caps, mainVars, sigint, results>>

\* read_loop() yields an event; the loop body runs up to the subprocess call
ReadEvent(p) ==
    /\ Alive /\ lpc[p] = "reading"
    /\ TotalEvents < MaxEvents
    /\ \E event \in EventsOf(p) :
          LET combos == HandleEvent(event) IN
          /\ events' = [events EXCEPT ![p] = Append(@, event)]
          /\ calls' = [calls EXCEPT ![p] = @ \o combos]
          /\ launches' = [launches EXCEPT ![p] =
                            @ \o [k \in 1..Len(combos) |-> Cmd(combos[k])]]
          /\ lpc' = [lpc EXCEPT ![p] =
                        IF combos = <<>> THEN "reading" ELSE "dispatching"]
    /\ UNCHANGED <<caps, mainVars, sigint, results>>

\* read_loop() raises and the handler ends the whole process instead of
\* only the thread
ReadFails_ExitsProcess(p) ==
    /\ Alive /\ lpc[p] = "reading"
    /\ lpc' = [lpc EXCEPT ![p] = "stopped"]
    /\ mainPc' = "exited"
    /\ exitStatus' = <<EXIT_NO_DEVICES>>
    /\ UNCHANGED <<caps, discIdx, discovered_paths, device, checked, warned, threads,
                   mainLog, sigint, events, calls, launches, results>>

\* read_loop() raises (device disconnected): logged, the thread ends
ReadFails(p) ==
    /\ Alive /\ lpc[p] = "reading"
    /\ lpc' = [lpc EXCEPT ![p] = "stopped"]
    /\ UNCHANGED <<caps, mainVars, sigint, events, calls, launches, results>>

\* run_ydotool_key without its try/except: a failed subprocess.run raises
\* into monitor_device, whose handler ends the thread
DispatchReturn_FailureRaises(p) ==
    /\ Alive /\ lpc[p] = "dispatching"
    /\ \E outcome \in {"ok", "launch_failed", "nonzero_exit"} :
          /\ results' = [results EXCEPT ![p] = Append(@, outcome)]
          /\ lpc' = [lpc EXCEPT ![p] = IF outcome = "ok" THEN "reading" ELSE "stopped"]
    /\ UNCHANGED <<caps, mainVars, sigint, events, calls, launches>>

\* subprocess.run returns or raises inside run_ydotool_key; either way
\* run_ydotool_key returns to the read loop
DispatchReturn(p) ==
    /\ Alive /\ lpc[p] = "dispatching"
    /\ \E outcome \in {"ok", "launch_failed", "nonzero_exit"} :
          results' = [results EXCEPT ![p] = Append(@, outcome)]
    /\ lpc' = [lpc EXCEPT ![p] = "reading"]
    /\ UNCHANGED <<caps, mainVars, sigint, events, calls, launches>>

\* the external tool never exits: subprocess.run has no timeout
ToolHangs(p) ==
    /\ Alive /\ lpc[p] = "dispatching"
    /\ lpc' = [lpc EXCEPT ![p] = "hung"]
    /\ UNCHANGED <<caps, mainVars, sigint, events, calls, launches, results>>

ListenerStep(p) ==
    \/ OpenDevice(p)
    \/ ReadEvent(p)
    \/ ReadFails(p)
    \/ DispatchReturn(p)
    \/ ToolHangs(p)

Next ==
    \/ MainStep
    \/ Interrupt
    \/ \E p \in Paths : ListenerStep(p)

Spec == Init /\ [][Next]_vars

\* The main thread is scheduled by the operating system and a pending signal
\* interrupts time.sleep: a step of main that stays possible is taken.
LiveSpec == Spec /\ WF_vars(MainStep)

(***************************************************************************)
(* Vocabulary of the properties, stated apart from the program's own       *)
(* definitions.                                                            *)
(***************************************************************************)
RecognizedCodes == {276, 275, 274}

\* the combo the program maps to each recognized code
MappedCombo == (276 :> SUPER_SHIFT_3) @@ (275 :> CTRL_V) @@ (274 :> CTRL_C)

KeyEvent(c, v) == [type |-> EV_KEY, code |-> c, value |-> v]

Last(s) == s[Len(s)]

\* the listener of p has read one more event in this step
ReadsEvent(p) == events'[p] # events[p]

RecognizedDown(e) == e.type = EV_KEY /\ e.value = 1 /\ e.code \in RecognizedCodes

(***************************************************************************)
(* C1: every key event with value 1 (down) and a recognized code (276, 275 *)
(* or 274) read by a listener causes exactly one run_ydotool_key call,     *)
(* with the combo mapped to that code; a key event with a recognized code  *)
(* and value 0 (up) or 2 (repeat) causes no call; no call happens without  *)
(* an event being read.                                                    *)
(***************************************************************************)
C1_DownDispatchesOnce ==
    [][\A p \in Paths :
          /\ ReadsEvent(p) =>
                LET e == Last(events'[p]) IN
                (e.type = EV_KEY /\ e.code \in RecognizedCodes) =>
                    IF e.value = 1
                    THEN calls'[p] = Append(calls[p], MappedCombo[e.code])
                    ELSE calls'[p] = calls[p]
          /\ ~ReadsEvent(p) => calls'[p] = calls[p]]_vars

\* a down event for 276 was dispatched once and the following up event was not
C1_Witness ==
    \E p \in Paths :
        /\ events[p] = <<KeyEvent(276, 1), KeyEvent(276, 0)>>
        /\ calls[p] = <<MappedCombo[276]>>

(***************************************************************************)
(* C2: a listener never dispatches for an event whose key code is not one  *)
(* of 276, 275, 274, whatever its value, and never for an event that is    *)
(* not a key event, whatever its code and value.                           *)
(***************************************************************************)
C2_NoDispatchForOthers ==
    [][\A p \in Paths :
          ReadsEvent(p) =>
             LET e == Last(events'[p]) IN
             (e.type # EV_KEY \/ e.code \notin RecognizedCodes) =>
                 /\ calls'[p] = calls[p]
                 /\ launches'[p] = launches[p]
                 /\ lpc'[p] = "reading"]_vars

\* a key-down event with an unrecognized code and a non-key event with code
\* 276 and value 1 were both read, and nothing was dispatched
C2_Witness ==
    \E p \in Paths :
        /\ events[p] = <<KeyEvent(272, 1), [type |-> EV_OTHER, code |-> 276, value |-> 1]>>
        /\ calls[p] = <<>>
        /\ launches[p] = <<>>

(***************************************************************************)
(* C3: the action mapping is top button (276) -> Copy (ctrl+c) and bottom  *)
(* button (275) -> Paste (ctrl+v): a key-down event with code 276 makes    *)
(* the listener call the dispatcher with "ctrl+c", one with code 275 with  *)
(* "ctrl+v".                                                               *)
(***************************************************************************)
C3_TopCopiesBottomPastes ==
    [][\A p \in Paths :
          ReadsEvent(p) =>
             LET e == Last(events'[p]) IN
             (e.type = EV_KEY /\ e.value = 1) =>
                 /\ e.code = 276 => calls'[p] = Append(calls[p], CTRL_C)
                 /\ e.code = 275 => calls'[p] = Append(calls[p], CTRL_V)]_vars

\* main has left the discovery loop
DiscoveryDone == discIdx > Len(ListDevices)

\* the capability rule, in the words of the specification
Eligible(p) ==
    /\ EV_KEY \in DOMAIN caps[p]
    /\ caps[p][EV_KEY] \cap RecognizedCodes # {}

(***************************************************************************)
(* C4: once the discovery loop is over, discovered_paths holds exactly the *)
(* enumerated devices that could be opened and inspected and whose         *)
(* key-event capability set contains at least one of 276, 275, 274, each   *)
(* once: a device with no key-event capability or with key capabilities    *)
(* disjoint from the three codes is never selected.                        *)
(***************************************************************************)
C4_DiscoverySelectsEligible ==
    /\ Range(discovered_paths) \subseteq {p \in checked : Eligible(p)}
    /\ Len(discovered_paths) = Cardinality(Range(discovered_paths))
    /\ DiscoveryDone =>
          Range(discovered_paths) = {p \in checked : Eligible(p)}

\* discovery is over; it inspected a device with keys but none of the three
\* codes and did not select it, and inspected and selected another one
C4_Witness ==
    /\ DiscoveryDone
    /\ \E p, q \in checked :
          /\ EV_KEY \in DOMAIN caps[p] /\ ~Eligible(p)
          /\ p \notin Range(discovered_paths)
          /\ Eligible(q) /\ q \in Range(discovered_paths)

NoListenerNoDispatch ==
    /\ threads = <<>>
    /\ \A p \in Paths :
          /\ lpc[p] = "unstarted"
          /\ calls[p] = <<>>
          /\ launches[p] = <<>>

RecognizedOf(p) ==
    IF EV_KEY \in DOMAIN caps[p] THEN caps[p][EV_KEY] \cap RecognizedCodes ELSE {}

\* the listener of p can read a key-down event with code c now and dispatches it
CanDispatch(p, c) ==
    ENABLED (/\ ReadEvent(p)
             /\ events'[p] = Append(events[p], KeyEvent(c, 1))
             /\ calls'[p] = Append(calls[p], MappedCombo[c])
             /\ lpc'[p] = "dispatching")

(***************************************************************************)
(* C6: when the listener of device A stops because its device read failed, *)
(* every other listener keeps its state and the process does not exit; and *)
(* while the process lives, a listener B that is reading next to a stopped *)
(* listener A still dispatches the recognized key-down events that arrive  *)
(* on its device (as long as the model lets events arrive).                *)
(***************************************************************************)
C6_ReadFailureIsLocal ==
    /\ [][\A a \in Paths :
             (lpc[a] = "reading" /\ lpc'[a] = "stopped") =>
                /\ \A b \in Paths \ {a} :
                      /\ lpc'[b] = lpc[b]
                      /\ events'[b] = events[b]
                      /\ calls'[b] = calls[b]
                /\ mainPc' = mainPc
                /\ exitStatus' = exitStatus]_vars
    /\ [](\A a, b \in Paths :
             (/\ a # b /\ lpc[a] = "stopped" /\ lpc[b] = "reading"
              /\ Alive /\ TotalEvents < MaxEvents) =>
                \A c \in RecognizedOf(b) : CanDispatch(b, c))

\* A has stopped after reading an event E1, B is reading, the process lives
\* and B can dispatch a key-down event that arrives now
C6_Witness ==
    \E a, b \in Paths :
        /\ a # b
        /\ lpc[a] = "stopped" /\ Len(events[a]) = 1
        /\ lpc[b] = "reading" /\ Alive
        /\ \E c \in RecognizedOf(b) : CanDispatch(b, c)

\* the recognized key-down events among the events read by the listener of p
Presses(p) == SelectSeq(events[p], RecognizedDown)

(***************************************************************************)
(* C7: for one listener, the sequence of dispatcher calls equals the       *)
(* sequence of mapped combos of the recognized key-down events of its      *)
(* device, in arrival order, none dropped, duplicated or reordered.        *)
(***************************************************************************)
C7_CallsFollowArrivalOrder ==
    \A p \in Paths :
        calls[p] = [k \in 1..Len(Presses(p)) |-> MappedCombo[Presses(p)[k].code]]

\* a down event for 275 then one for 274: two calls, bottom combo first
C7_Witness ==
    \E p \in Paths :
        /\ events[p] = <<KeyEvent(275, 1), KeyEvent(274, 1)>>
        /\ calls[p] = <<CTRL_V, CTRL_C>>

Failed(outcome) == outcome \in {"launch_failed", "nonzero_exit"}

(***************************************************************************)
(* C8: when a dispatch fails (the tool cannot be launched or exits with a  *)
(* non-zero code), run_ydotool_key returns normally: the listener is back  *)
(* in its read loop, nothing is sent again (one launch per recognized      *)
(* key-down event, failed or not), nothing else in the process changes,    *)
(* and the next recognized key-down event of the device is dispatched as   *)
(* usual.                                                                  *)
(***************************************************************************)
C8_FailedDispatchReturns ==
    /\ [][\A p \in Paths :
             (results'[p] # results[p] /\ Failed(Last(results'[p]))) =>
                /\ lpc[p] = "dispatching" /\ lpc'[p] = "reading"
                /\ calls'[p] = calls[p]
                /\ launches'[p] = launches[p]
                /\ mainPc' = mainPc
                /\ exitStatus' = exitStatus]_vars
    /\ [](\A p \in Paths :
             /\ Len(launches[p]) = Len(Presses(p))
             /\ (/\ lpc[p] = "reading" /\ results[p] # <<>> /\ Failed(Last(results[p]))
                 /\ Alive /\ TotalEvents < MaxEvents) =>
                   \A c \in RecognizedOf(p) : CanDispatch(p, c))

\* the first dispatch of a listener failed and its next recognized key-down
\* event was dispatched
C8_Witness ==
    \E p \in Paths :
        /\ Len(results[p]) >= 1 /\ Failed(results[p][1])
        /\ Len(Presses(p)) = 2
        /\ Len(calls[p]) = 2 /\ Len(launches[p]) = 2

(***************************************************************************)
(* C9: the process terminates only with exit status 0 or 1: 0 exactly when *)
(* it was shut down by an interrupt signal, 1 exactly when discovery found *)
(* no eligible device; an interrupt received in any phase (discovery,      *)
(* spawning, running) results in the logged shutdown and exit status 0.    *)
(***************************************************************************)
C9_ExitStatusZeroOrOne ==
    mainPc = "exited" =>
        /\ exitStatus \in {<<0>>, <<1>>}
        /\ exitStatus = <<0>> <=> sigint
        /\ exitStatus = <<1>> <=> (DiscoveryDone /\ discovered_paths = <<>>)
        /\ sigint => Last(mainLog) = "shutdown"

(***************************************************************************)
(* C10: once all listeners are spawned and the supervisor is in its sleep  *)
(* loop, an interrupt signal always leads to process termination with exit *)
(* status 0, whatever the listeners are doing (blocked in a read, inside a *)
(* dispatch whose tool never exits, or stopped): the supervisor waits for  *)
(* no listener.                                                            *)
(***************************************************************************)
C10_InterruptInSleepLoopExits0 ==
    /\ [](mainPc = "sleep" =>
             /\ Len(threads) = Len(discovered_paths)
             /\ sigint => ENABLED ShutDown)
    /\ (mainPc = "sleep" /\ sigint) ~>
          (mainPc = "exited" /\ exitStatus = <<0>> /\ Last(mainLog) = "shutdown")

\* the process has exited with status 0 after an interrupt while one listener
\* was inside a dispatch whose tool never exits and another was blocked in
\* its device read
C10_Witness ==
    /\ mainPc = "exited" /\ exitStatus = <<0>> /\ sigint
    /\ \E p, q \in Paths : lpc[p] = "hung" /\ lpc[q] = "reading"

(***************************************************************************)
(* C11: a failure to open or inspect one candidate during discovery        *)
(* removes only that candidate: the step that fails goes on to the next    *)
(* device without changing the result so far, the phase of main or the     *)
(* exit status; every enumerated device is tried; and the result is what   *)
(* the capability rule gives for the devices that did not fail.            *)
(***************************************************************************)
C11_DiscoveryFailureIsSkipped ==
    /\ [][warned' # warned =>
             /\ discIdx' = discIdx + 1
             /\ discovered_paths' = discovered_paths
             /\ checked' = checked
             /\ mainPc = "discover" /\ mainPc' = "discover"
             /\ exitStatus' = <<>>
             /\ threads' = threads]_vars
    /\ [](/\ checked \cap warned = {}
          /\ checked \cup warned = {ListDevices[k] : k \in 1..(discIdx - 1)}
          /\ Range(discovered_paths) = {p \in Paths \ warned : p \in checked /\ Eligible(p)}
          /\ DiscoveryDone =>
                Range(discovered_paths) = {p \in Paths \ warned : Eligible(p)})

\* the first candidate failed, the second one was inspected and selected and
\* its listener is running
C11_Witness ==
    /\ DiscoveryDone
    /\ ListDevices[1] \in warned
    /\ discovered_paths = <<ListDevices[2]>>
    /\ lpc[ListDevices[2]] = "reading"

\* open handles: main keeps the InputDevice its variable "device" refers to;
\* a listener keeps the one it opened for as long as monitor_device runs; the
\* end of the process closes everything
MainHolds(p) == Alive /\ device = <<p>>
ListenerHolds(p) == Alive /\ lpc[p] \in {"reading", "dispatching", "hung"}
OpenHandles(p) ==
    (IF MainHolds(p) THEN 1 ELSE 0) + (IF ListenerHolds(p) THEN 1 ELSE 0)

(***************************************************************************)
(* C12: every device handle the program opens is owned by exactly one      *)
(* listener and is closed when that listener's loop exits: there is no     *)
(* open handle on a device that is not owned by a running listener, and no *)
(* device has more than one open handle.  (Stated for the sleep loop,      *)
(* where discovery is over and every listener has been started.)           *)
(***************************************************************************)
C12_HandlesOwnedByListeners ==
    mainPc = "sleep" =>
        \A p \in Paths :
            /\ ~MainHolds(p)
            /\ OpenHandles(p) <= 1

\* the moves of the main thread between its phases: discovering, spawning,
\* running (the sleep loop), terminated
PhaseMoves ==
    { <<"discover", "spawn">>, <<"discover", "exited">>, <<"spawn", "sleep">>,
      <<"spawn", "exited">>, <<"sleep", "exited">> }

(***************************************************************************)
(* C14: the program goes through discovering, then failed or spawning and  *)
(* running, then terminated, never backwards: discovery runs once (its     *)
(* loop index only advances and its result is final once the loop is over) *)
(* and is over before any listener is spawned; the listeners spawned are   *)
(* the selected devices, one each, in order, also for a device with two    *)
(* recognized codes, none for an unselected device; and no listener is     *)
(* spawned once the supervisor is in its sleep loop.                       *)
(***************************************************************************)
C14_DiscoverThenSpawnOnePerDevice ==
    /\ [][/\ mainPc' # mainPc => <<mainPc, mainPc'>> \in PhaseMoves
          /\ discIdx' \in {discIdx, discIdx + 1}
          /\ DiscoveryDone =>
                /\ discIdx' = discIdx
                /\ discovered_paths' = discovered_paths
                /\ checked' = checked /\ warned' = warned
          /\ (mainPc = "discover" /\ mainPc' = "spawn") =>
                DiscoveryDone /\ discovered_paths # <<>>
          /\ (mainPc = "discover" /\ mainPc' = "exited" /\ ~sigint) =>
                DiscoveryDone /\ discovered_paths = <<>> /\ exitStatus' = <<1>>
          /\ mainPc \in {"sleep", "exited"} =>
                /\ threads' = threads
                /\ \A p \in Paths : lpc[p] = "unstarted" => lpc'[p] = "unstarted"]_vars
    /\ [](/\ threads # <<>> => (DiscoveryDone /\ mainPc # "discover")
          /\ Len(threads) <= Len(discovered_paths)
          /\ threads = SubSeq(discovered_paths, 1, Len(threads))
          /\ Cardinality(Range(threads)) = Len(threads)
          /\ \A p \in Paths : lpc[p] # "unstarted" <=> p \in Range(threads)
          /\ \A p \in Range(threads) : p \in checked /\ Eligible(p)
          /\ mainPc = "sleep" => Range(threads) = {p \in checked : Eligible(p)})

\* running: one listener for the device that exposes 274 and 275, none for
\* the inspected device without a recognized code
C14_Witness ==
    /\ mainPc = "sleep"
    /\ \E p, q \in Paths :
          /\ caps[p] = BottomMiddleMouse /\ threads = <<p>> /\ lpc[p] = "reading"
          /\ q \in checked /\ ~Eligible(q) /\ lpc[q] = "unstarted"

(***************************************************************************)
(* C15: a listener's stopped state is absorbing: once it stopped (the open *)
(* or the read loop raised), it stays stopped, reads no further event and  *)
(* dispatches nothing; no other listener is started for its device; and    *)
(* discovery is not run again.                                             *)
(***************************************************************************)
C15_StoppedIsAbsorbing ==
    [][\A p \in Paths :
          lpc[p] = "stopped" =>
             /\ lpc'[p] = "stopped"
             /\ events'[p] = events[p]
             /\ calls'[p] = calls[p]
             /\ launches'[p] = launches[p]
             /\ results'[p] = results[p]
             /\ \A k \in 1..Len(threads') : threads'[k] = p => k <= Len(threads)
             /\ discIdx' = discIdx
             /\ discovered_paths' = discovered_paths
             /\ checked' = checked /\ warned' = warned]_vars

\* a listener stopped after reading an event while the process lives and the
\* other device's listener goes on reading
C15_Witness ==
    \E p, q \in Paths :
        /\ lpc[p] = "stopped" /\ Len(events[p]) = 1
        /\ Alive /\ lpc[q] = "reading" /\ Len(events[q]) = 1

\* the dispatches of the listener of p that have not returned
InFlight(p) == Len(calls[p]) - Len(results[p])

(***************************************************************************)
(* C16: dispatch is synchronous within a listener: a listener has at most  *)
(* one dispatch in flight and reads no event of its device while one is in *)
(* flight; a listener whose tool never exits reads and dispatches nothing  *)
(* any more, while another listener that is reading still dispatches the   *)
(* recognized key-down events of its own device.                           *)
(***************************************************************************)
C16_DispatchIsSynchronous ==
    /\ [][\A p \in Paths :
             /\ ReadsEvent(p) => (lpc[p] = "reading" /\ InFlight(p) = 0)
             /\ Len(calls'[p]) <= Len(calls[p]) + 1
             /\ lpc[p] = "hung" =>
                   /\ lpc'[p] = "hung"
                   /\ events'[p] = events[p]
                   /\ calls'[p] = calls[p]
                   /\ launches'[p] = launches[p]
                   /\ results'[p] = results[p]]_vars
    /\ [](/\ \A p \in Paths :
                /\ InFlight(p) \in {0, 1}
                /\ InFlight(p) = 1 <=> lpc[p] \in {"dispatching", "hung"}
          /\ \A a, b \in Paths :
                (/\ a # b /\ lpc[a] = "hung" /\ lpc[b] = "reading"
                 /\ Alive /\ TotalEvents < MaxEvents) =>
                   \A c \in RecognizedOf(b) : CanDispatch(b, c))

\* the tool started by one listener never exits; the other listener is
\* reading and can dispatch a key-down event that arrives now
C16_Witness ==
    \E a, b \in Paths :
        /\ a # b
        /\ lpc[a] = "hung" /\ InFlight(a) = 1
        /\ lpc[b] = "reading" /\ Alive
        /\ \E c \in RecognizedOf(b) : CanDispatch(b, c)

\* key codes around the recognized ones
CodeUniverse == {272, 273, 274, 275, 276, 277}

\* the discovery filter selects a device whose only key is c
FilterAccepts(c) == Suitable(EV_KEY :> {c})

\* the listener dispatches a key-down event with code c
HandlerDispatches(c) == HandleEvent(KeyEvent(c, 1)) # <<>>

(***************************************************************************)
(* C17: the key codes of the discovery filter are the key codes the        *)
(* listener maps to an action: a code is accepted by the filter exactly if *)
(* its key-down event is dispatched; every selected device has a code in   *)
(* its capability set whose key-down event its listener dispatches, and a  *)
(* reading listener can read and dispatch such an event.                   *)
(***************************************************************************)
C17_FilterCodesAreMapped ==
    /\ \A c \in CodeUniverse : FilterAccepts(c) <=> HandlerDispatches(c)
    /\ \A p \in Range(discovered_paths) :
          \E c \in caps[p][EV_KEY] : HandlerDispatches(c)
    /\ \A p \in Paths :
          (lpc[p] = "reading" /\ Alive /\ TotalEvents < MaxEvents) =>
             \E c \in caps[p][EV_KEY] :
                ENABLED (/\ ReadEvent(p)
                         /\ events'[p] = Append(events[p], KeyEvent(c, 1))
                         /\ Len(calls'[p]) = Len(calls[p]) + 1)

\* the listener of the selected device with codes 274 and 275 has dispatched
\* a key-down event of the middle button
C17_Witness ==
    \E p \in Range(discovered_paths) :
        /\ caps[p] = BottomMiddleMouse
        /\ events[p] = <<KeyEvent(274, 1)>>
        /\ Len(calls[p]) = 1

\* the longest combo string tried on the command builder
MaxLen == 4

\* the strings of at most MaxLen characters over a letter, "+" and the blank
TestStrings == UNION {[1..n -> {"a", "+", SP}] : n \in 0..MaxLen}

\* the whitespace-separated tokens of s, by position: a token starts where a
\* non-blank follows the start of s or a blank, and runs up to the next blank
TokenStarts(s) == {k \in 1..Len(s) : s[k] # SP /\ (k = 1 \/ s[k - 1] = SP)}
TokenEnd(s, k) ==
    CHOOSE j \in k..Len(s) :
        /\ \A i \in k..j : s[i] # SP
        /\ j = Len(s) \/ s[j + 1] = SP
Tokens(s) ==
    [n \in 1..Cardinality(TokenStarts(s)) |->
        LET k == CHOOSE i \in TokenStarts(s) :
                    Cardinality({j \in TokenStarts(s) : j <= i}) = n
        IN  SubSeq(s, k, TokenEnd(s, k))]

\* the command built for any combo string is the tool, "key" and the tokens
CmdIsToolKeyTokens ==
    \A s \in TestStrings : Cmd(s) = <<YDOTOOL, KEY>> \o Tokens(s)

\* each of the three mapped combos is one whitespace-free token, and the
\* command built for it is the tool, "key" and the combo itself
MappedCombosAreOneToken ==
    \A c \in RecognizedCodes :
        /\ SP \notin Range(MappedCombo[c])
        /\ Tokens(MappedCombo[c]) = <<MappedCombo[c]>>
        /\ Cmd(MappedCombo[c]) = <<YDOTOOL, KEY>> \o Tokens(MappedCombo[c])

(***************************************************************************)
(* C18: each dispatcher call launches the external tool exactly once, with *)
(* the argument list [tool, "key"] followed by the whitespace-separated    *)
(* tokens of the combo in their original order; for the combos mapped to   *)
(* the three recognized buttons this is exactly one whitespace-free token  *)
(* after "key", the combo itself.                                          *)
(***************************************************************************)
C18_OneLaunchPerCall ==
    /\ CmdIsToolKeyTokens
    /\ MappedCombosAreOneToken
    /\ \A p \in Paths :
          /\ Len(launches[p]) = Len(calls[p])
          /\ \A k \in 1..Len(calls[p]) :
                /\ calls[p][k] \in {MappedCombo[c] : c \in RecognizedCodes}
                /\ launches[p][k] = <<YDOTOOL, KEY, calls[p][k]>>

\* a listener made two calls, the first of which failed, and launched the tool
\* once for each: "ydotool key ctrl+v", then "ydotool key ctrl+c"
C18_Witness ==
    \E p \in Paths :
        /\ calls[p] = <<CTRL_V, CTRL_C>>
        /\ launches[p] = << <<YDOTOOL, KEY, CTRL_V>>, <<YDOTOOL, KEY, CTRL_C>> >>
        /\ Len(results[p]) >= 1 /\ Failed(results[p][1])

\* every listener that was spawned has stopped
NoLiveListener == \A p \in Paths : lpc[p] \in {"unstarted", "stopped"}

(***************************************************************************)
(* C19: after the listeners have been spawned the supervisor never         *)
(* terminates on its own: in the sleep loop main has no step to take       *)
(* unless an interrupt is pending, also when every listener has stopped;   *)
(* with no live listener nothing is read or dispatched any more; and the   *)
(* process ends from the spawn loop or the sleep loop only on an           *)
(* interrupt.                                                              *)
(***************************************************************************)
C19_RunningEndsOnlyOnInterrupt ==
    /\ [][/\ (mainPc \in {"spawn", "sleep"} /\ mainPc' = "exited") => sigint
          /\ (mainPc = "sleep" /\ mainPc' # "sleep") =>
                (mainPc' = "exited" /\ exitStatus' = <<0>>)
          /\ (mainPc = "sleep" /\ NoLiveListener) =>
                /\ lpc' = lpc
                /\ events' = events
                /\ calls' = calls
                /\ launches' = launches]_vars
    /\ []((mainPc = "sleep" /\ ~sigint) => ~ENABLED MainStep)

\* running with zero live listeners: both listeners have stopped, one after a
\* dispatch, no interrupt is pending and the process lives
C19_Witness ==
    /\ mainPc = "sleep" /\ ~sigint /\ exitStatus = <<>>
    /\ Len(threads) = 2
    /\ \A p \in Range(threads) : lpc[p] = "stopped"
    /\ \E p \in Paths : Len(calls[p]) = 1

=============================================================================
